---- MODULE Spec2Model ----
(***************************************************************************)
(* CinemaScope: the TMDB fetcher (scripts/get_data.py), the cleaner        *)
(* (scripts/data_processing.py), the trainer's feature preparation         *)
(* (scripts/train_rf_model.py) and the dashboard's load-time preparation   *)
(* (scripts/dashboard.py).                                                 *)
(*                                                                         *)
(* The fetcher is a state machine of asyncio tasks; its numeric constants  *)
(* (36 years, 25 pages per year, a ceiling of 20,000 items, a semaphore of *)
(* 30 permits) are scaled down to the bounds below, and every formula is   *)
(* written in terms of the names, not of the numbers.                      *)
(***************************************************************************)
EXTENDS Integers, Sequences, FiniteSets, TLC

(***************************************************************************)
(* Bounds                                                                  *)
(***************************************************************************)
\* number of years of range(1990, 2026) that are modelled (36 in the source)
NumYears == 2
\* pages per year, range(1, 26) in the source (25)
PagesPerYear == 2
\* the item ceiling, 20000 in the source (the break test and the slice)
Ceiling == 2
\* permits of asyncio.Semaphore(30)
SemaphoreLimit == 1
\* most items one discover page returns
MaxPageItems == 1
\* distinct movie ids the catalogue holds
NumMovieIds == 3
\* most rows of a raw dataset file
MaxRows == 3

\* first year of range(1990, 2026)
FirstYear == 1990
LastYear == FirstYear + NumYears - 1
Years == FirstYear..LastYear
Pages == 1..PagesPerYear
MovieIds == 1..NumMovieIds

Min(a, b) == IF a <= b THEN a ELSE b

RECURSIVE Concat(_, _)
\* results[1] \o ... \o results[n]: the loop `for result in results: extend`
Concat(results, n) ==
    IF n = 0 THEN <<>> ELSE Concat(results, n - 1) \o results[n]

RECURSIVE SumLen(_, _)
SumLen(results, n) ==
    IF n = 0 THEN 0 ELSE SumLen(results, n - 1) + Len(results[n])

(***************************************************************************)
(* The remote API, as the fetcher sees it                                  *)
(***************************************************************************)
\* Python's None
None == "None"

\* the keys of the dict fetch_movie_details returns
RecordKeys ==
    {"id", "title", "original_title", "overview", "release_date",
     "original_language", "popularity", "vote_average", "vote_count", "adult",
     "genres", "runtime", "budget", "revenue", "production_countries",
     "spoken_languages"}
\* the keys built by a list comprehension over data.get(key, [])
ListKeys == {"genres", "production_countries", "spoken_languages"}

\* the id of the k-th item of page p of year y in the catalogue; ids repeat
\* across pages, as a movie may be listed on more than one page
MovieIdAt(y, p, k) ==
    ((((y - FirstYear) * PagesPerYear + (p - 1)) * MaxPageItems + (k - 1))
        % NumMovieIds) + 1

\* the "results" a discover page may carry: any prefix of its catalogue page
PageBodies(y, p) ==
    { [k \in 1..n |-> [id |-> MovieIdAt(y, p, k)]] : n \in 0..MaxPageItems }

\* what a request may end with before any body is read
ResponseKinds == {"200", "non200", "exception"}

\* the JSON bodies a detail request with status 200 may carry
\*   full:   every key present
\*   sparse: only the id
\*   noid:   no id
DetailBodyKinds == {"full", "sparse", "noid"}
DetailBody(kind, movie_id) ==
    CASE kind = "full" ->
            [k \in RecordKeys |->
                IF k = "id" THEN <<movie_id>>
                ELSE IF k \in ListKeys THEN <<"Drama">>
                ELSE <<"v">>]
      [] kind = "sparse" -> [k \in {"id"} |-> <<movie_id>>]
      [] OTHER -> [k \in {"title"} |-> <<"v">>]

(***************************************************************************)
(* State                                                                   *)
(***************************************************************************)
VARIABLES
    pc,               \* where main() is
    year,             \* the loop variable of `for year in range(1990, 2026)`
    pages,            \* the tasks of the current year's gather, by page
    total_movies,     \* the accumulated discover items
    semaphore,        \* free permits of the semaphore
    detail_tasks,     \* the tasks of the enrichment gather, by list position
    enriched,         \* [movie for movie in detailed_movies if movie]
    output_csv,       \* what df.to_csv wrote, <<>> before the save
    page_requests,    \* discover requests issued, <<year, page>> -> count
    ok_page_items,    \* items carried so far by the pages that succeeded
    page_failed,      \* some discover request has failed so far
    detail_requests   \* ids of the detail requests issued so far, by position

fetch_vars ==
    <<pc, year, pages, total_movies, semaphore, detail_tasks, enriched,
      output_csv, page_requests, ok_page_items, page_failed,
      detail_requests>>

VARIABLES
    pc_data,          \* which step of the data scripts ran last
    raw_file,         \* data/tmdb_movies_1990_2025.csv as pd.read_csv reads it
    cleaned,          \* the frame load_and_process_data returns
    skewed_cols,      \* the column list load_and_process_data returns
    clean_file,       \* data/tmdb_movies_cleaned.csv, <<>> before it is written
    train_df,         \* the trainer's df after the drops
    feature_cols,     \* the trainer's feature_cols
    pc_dash,          \* which step of dashboard.py ran last
    dash_df,          \* the dashboard's df, with min_year and max_year
    yearly_data       \* the dashboard's yearly_data

data_vars ==
    <<pc_data, raw_file, cleaned, skewed_cols, clean_file, train_df,
      feature_cols, pc_dash, dash_df, yearly_data>>

vars == <<fetch_vars, data_vars>>

(***************************************************************************)
(* fetch_movies_page                                                       *)
(***************************************************************************)
\* `except Exception as e` of fetch_movies_page catches the exception
PageExceptMut(e) == FALSE
PageExcept(e) == TRUE

\* the value fetch_movies_page returns for a page that did not succeed
FailedPageResultMut(p) == <<[id |-> 1]>>
FailedPageResult(p) == <<>>

\* session.get(BASE_DISCOVER_URL) answers, or raises
PageRespond(p, kind) ==
    /\ pc = "gather_pages"
    /\ pages[p].st = "requesting"
    /\ IF kind = "200"
         THEN /\ pages' = [pages EXCEPT ![p].st = "reading"]
              /\ pc' = pc
         ELSE IF kind = "non200" \/ PageExcept(kind)
         THEN /\ pages' = [pages EXCEPT
                    ![p] = [st |-> "done", ok |-> FALSE,
                            ret |-> FailedPageResult(p)]]
              /\ pc' = pc
         ELSE /\ pages' = pages
              /\ pc' = "aborted"
    /\ page_failed' = (page_failed \/ kind # "200")
    /\ UNCHANGED <<year, total_movies, semaphore, detail_tasks, enriched,
                   output_csv, page_requests, ok_page_items, detail_requests>>
    /\ UNCHANGED data_vars

\* `data = await resp.json()` ends: with a body, or with an exception
PageRead(p, readOk, body) ==
    /\ pc = "gather_pages"
    /\ pages[p].st = "reading"
    /\ IF readOk
         THEN /\ pages' = [pages EXCEPT
                    ![p] = [st |-> "done", ok |-> TRUE, ret |-> body]]
              /\ pc' = pc
         ELSE IF PageExcept("exception")
         THEN /\ pages' = [pages EXCEPT
                    ![p] = [st |-> "done", ok |-> FALSE,
                            ret |-> FailedPageResult(p)]]
              /\ pc' = pc
         ELSE /\ pages' = pages
              /\ pc' = "aborted"
    /\ ok_page_items' = IF readOk THEN ok_page_items + Len(body)
                                  ELSE ok_page_items
    /\ page_failed' = (page_failed \/ ~readOk)
    /\ UNCHANGED <<year, total_movies, semaphore, detail_tasks, enriched,
                   output_csv, page_requests, detail_requests>>
    /\ UNCHANGED data_vars

(***************************************************************************)
(* main, step 1: collect basic info                                        *)
(***************************************************************************)
\* no gather of page tasks is pending
NoPages == [p \in Pages |-> [st |-> "done", ok |-> FALSE, ret |-> <<>>]]

\* range(1, 26): the pages requested for one year
PagesOfYearMut(y) == 1..(PagesPerYear - 1)
PagesOfYear(y) == Pages

\* tasks = [fetch_movies_page(session, year, page) for page in range(1, 26)]
StartYear ==
    /\ pc = "discover"
    /\ pages' = [p \in Pages |->
                    IF p \in PagesOfYear(year)
                      THEN [st |-> "requesting", ok |-> FALSE, ret |-> <<>>]
                      ELSE [st |-> "done", ok |-> FALSE, ret |-> <<>>]]
    /\ page_requests' =
          [r \in Years \X Pages |->
              IF r[1] = year /\ r[2] \in PagesOfYear(year)
                THEN page_requests[r] + 1 ELSE page_requests[r]]
    /\ pc' = "gather_pages"
    /\ UNCHANGED <<year, total_movies, semaphore, detail_tasks, enriched,
                   output_csv, ok_page_items, detail_requests, page_failed>>
    /\ UNCHANGED data_vars

\* `if len(total_movies) >= 20000: break`
BreakTestMut(n) == n > Ceiling
BreakTest(n) == n >= Ceiling

\* the gather of the year is complete: extend total_movies, test, next year
FinishYear ==
    /\ pc = "gather_pages"
    /\ \A p \in Pages : pages[p].st = "done"
    /\ total_movies' =
          total_movies \o Concat([p \in Pages |-> pages[p].ret], PagesPerYear)
    /\ IF BreakTest(Len(total_movies')) \/ year = LastYear
         THEN /\ pc' = "enrich"
              /\ year' = year
         ELSE /\ pc' = "discover"
              /\ year' = year + 1
    /\ pages' = NoPages
    /\ UNCHANGED <<semaphore, detail_tasks, enriched, output_csv,
                   page_requests, ok_page_items, detail_requests, page_failed>>
    /\ UNCHANGED data_vars

(***************************************************************************)
(* fetch_movie_details                                                     *)
(***************************************************************************)
\* `except Exception as e` of fetch_movie_details catches the exception
DetailExceptMut(e) == FALSE
DetailExcept(e) == TRUE

\* `async with semaphore` enters only while a permit is free
CanAcquireMut(s) == TRUE
CanAcquire(s) == s > 0

\* the exit of the `async with semaphore` block gives the permit back
ReleaseMut(s) == s
Release(s) == s + 1

\* the dict built from a detail body: data['id'], data.get(key) for a scalar,
\* the names of data.get(key, []) for a list
BuildRecord(data) ==
    [k \in RecordKeys |->
        IF k = "id" THEN data["id"]
        ELSE IF k \in ListKeys
          THEN (IF k \in DOMAIN data THEN data[k] ELSE <<>>)
          ELSE (IF k \in DOMAIN data THEN data[k] ELSE <<None>>)]

\* the task passes `async with semaphore` and issues session.get(url)
Acquire(i) ==
    /\ pc = "gather_details"
    /\ i \in DOMAIN detail_tasks
    /\ detail_tasks[i].st = "created"
    /\ CanAcquire(semaphore)
    /\ semaphore' = semaphore - 1
    /\ detail_tasks' = [detail_tasks EXCEPT ![i].st = "requesting"]
    /\ detail_requests' =
          [detail_requests EXCEPT
              ![i] = Append(@, detail_tasks[i].movie_id)]
    /\ UNCHANGED <<pc, year, pages, total_movies, enriched, output_csv,
                   page_requests, ok_page_items, page_failed>>
    /\ UNCHANGED data_vars

\* session.get(url) answers, or raises; every exit of the `async with
\* semaphore` block releases the permit
DetailRespond(i, kind) ==
    /\ pc = "gather_details"
    /\ i \in DOMAIN detail_tasks
    /\ detail_tasks[i].st = "requesting"
    /\ IF kind = "200"
         THEN /\ detail_tasks' =
                    [detail_tasks EXCEPT ![i].st = "reading",
                                         ![i].status = "200"]
              /\ semaphore' = semaphore
              /\ pc' = pc
         ELSE /\ detail_tasks' =
                    [detail_tasks EXCEPT ![i].st = "done",
                                         ![i].status = kind,
                                         ![i].ret = <<>>]
              /\ semaphore' = Release(semaphore)
              /\ pc' = IF kind = "non200" \/ DetailExcept(kind)
                         THEN pc ELSE "aborted"
    /\ UNCHANGED <<year, pages, total_movies, enriched, output_csv,
                   page_requests, ok_page_items, detail_requests, page_failed>>
    /\ UNCHANGED data_vars

\* `data = await resp.json()` ends with a body or with an exception; the
\* dict is built, or data['id'] raises KeyError
DetailRead(i, readOk, kind) ==
    /\ pc = "gather_details"
    /\ i \in DOMAIN detail_tasks
    /\ detail_tasks[i].st = "reading"
    /\ LET data == DetailBody(kind, detail_tasks[i].movie_id)
           built == readOk /\ "id" \in DOMAIN data
       IN /\ detail_tasks' =
                [detail_tasks EXCEPT
                    ![i].st = "done",
                    ![i].body = IF built THEN "parsed" ELSE "failed",
                    ![i].ret = IF built THEN <<BuildRecord(data)>> ELSE <<>>]
          /\ pc' = IF built \/ DetailExcept("exception")
                     THEN pc ELSE "aborted"
    /\ semaphore' = Release(semaphore)
    /\ UNCHANGED <<year, pages, total_movies, enriched, output_csv,
                   page_requests, ok_page_items, detail_requests, page_failed>>
    /\ UNCHANGED data_vars

(***************************************************************************)
(* main, step 2: fetch detailed info; step 3: save to CSV                  *)
(***************************************************************************)
\* total_movies[:20000]
SliceMut(movies) == movies
Slice(movies) == SubSeq(movies, 1, Min(Len(movies), Ceiling))

\* semaphore = asyncio.Semaphore(30); detail_tasks = [...]
StartEnrich ==
    /\ pc = "enrich"
    /\ semaphore' = SemaphoreLimit
    /\ detail_tasks' =
          [i \in 1..Len(Slice(total_movies)) |->
              [st |-> "created", movie_id |-> Slice(total_movies)[i].id,
               status |-> "none", body |-> "none", ret |-> <<>>]]
    /\ detail_requests' = [i \in 1..Len(total_movies) |-> <<>>]
    /\ pc' = "gather_details"
    /\ UNCHANGED <<year, pages, total_movies, enriched, output_csv,
                   page_requests, ok_page_items, page_failed>>
    /\ UNCHANGED data_vars

\* the gather is complete: enriched = [movie for movie in detailed_movies
\* if movie]
FinishEnrich ==
    /\ pc = "gather_details"
    /\ \A i \in DOMAIN detail_tasks : detail_tasks[i].st = "done"
    /\ enriched' =
          Concat([i \in DOMAIN detail_tasks |-> detail_tasks[i].ret],
                 Len(detail_tasks))
    /\ pc' = "save"
    /\ UNCHANGED <<year, pages, total_movies, semaphore, detail_tasks,
                   output_csv, page_requests, ok_page_items, detail_requests,
                   page_failed>>
    /\ UNCHANGED data_vars

\* df = pd.DataFrame(enriched); df.to_csv(OUTPUT_CSV, index=False)
Save ==
    /\ pc = "save"
    /\ output_csv' = enriched
    /\ pc' = "done"
    /\ UNCHANGED <<year, pages, total_movies, semaphore, detail_tasks,
                   enriched, page_requests, ok_page_items, detail_requests,
                   page_failed>>
    /\ UNCHANGED data_vars

(***************************************************************************)
(* Initial state and next-state relation of the fetcher                    *)
(***************************************************************************)
InitFetch ==
    /\ pc = "discover"
    /\ year = FirstYear
    /\ pages = NoPages
    /\ total_movies = <<>>
    /\ semaphore = 0
    /\ detail_tasks = <<>>
    /\ enriched = <<>>
    /\ output_csv = <<>>
    /\ page_requests = [r \in Years \X Pages |-> 0]
    /\ ok_page_items = 0
    /\ page_failed = FALSE
    /\ detail_requests = <<>>
    /\ pc_data = "off"
    /\ raw_file = <<>>
    /\ cleaned = <<>>
    /\ skewed_cols = <<>>
    /\ clean_file = <<>>
    /\ train_df = <<>>
    /\ feature_cols = <<>>
    /\ pc_dash = "off"
    /\ dash_df = <<>>
    /\ yearly_data = <<>>

NextFetch ==
    \/ StartYear
    \/ \E p \in Pages, kind \in ResponseKinds : PageRespond(p, kind)
    \/ \E p \in Pages, readOk \in BOOLEAN :
          \E body \in PageBodies(year, p) : PageRead(p, readOk, body)
    \/ FinishYear
    \/ StartEnrich
    \/ \E i \in 1..Ceiling : Acquire(i)
    \/ \E i \in 1..Ceiling, kind \in ResponseKinds : DetailRespond(i, kind)
    \/ \E i \in 1..Ceiling, readOk \in BOOLEAN, kind \in DetailBodyKinds :
          DetailRead(i, readOk, kind)
    \/ FinishEnrich
    \/ Save

SpecFetch == InitFetch /\ [][NextFetch]_vars

\* the enrichment pass under the scheduling of the event loop: a task that
\* waits for a permit is woken when one is free, every request that was
\* issued answers or fails in the end, and main goes on once the gather is
\* complete; nothing is assumed of the discovery pass
FairEnrich ==
    /\ WF_vars(\E i \in 1..Ceiling : Acquire(i))
    /\ \A i \in 1..Ceiling :
          WF_vars(\E kind \in ResponseKinds : DetailRespond(i, kind))
    /\ \A i \in 1..Ceiling :
          WF_vars(\E readOk \in BOOLEAN, kind \in DetailBodyKinds :
                     DetailRead(i, readOk, kind))
    /\ WF_vars(FinishEnrich)
    /\ WF_vars(Save)

SpecFetchFair == SpecFetch /\ FairEnrich
(***************************************************************************)
(* Values of a data frame                                                  *)
(*                                                                         *)
(* A numeric cell is NaN or a rational <<n, d>> in lowest terms with       *)
(* d > 0; <<1, 0>> and <<-1, 0>> are the infinities a float division by    *)
(* zero yields.  A text cell is a tuple of tokens.                         *)
(***************************************************************************)
NaN == <<>>

Abs(n) == IF n < 0 THEN -n ELSE n

RECURSIVE GCD(_, _)
GCD(a, b) == IF b = 0 THEN a ELSE GCD(b, a % b)

\* the float n / d; 0 / 0 is NaN, x / 0 an infinity
Q(n, d) ==
    IF d = 0
      THEN (IF n = 0 THEN NaN ELSE IF n > 0 THEN <<1, 0>> ELSE <<-1, 0>>)
      ELSE LET g == GCD(Abs(n), Abs(d))
               sgn == IF d < 0 THEN -1 ELSE 1
           IN <<(sgn * n) \div g, (sgn * d) \div g>>

IsNaN(x) == x = NaN
IsFinite(x) == Len(x) = 2 /\ x[2] # 0

\* float arithmetic; NaN in, NaN out
Add(a, b) ==
    IF IsNaN(a) \/ IsNaN(b) THEN NaN
    ELSE Q(a[1] * b[2] + b[1] * a[2], a[2] * b[2])
Sub(a, b) ==
    IF IsNaN(a) \/ IsNaN(b) THEN NaN
    ELSE Q(a[1] * b[2] - b[1] * a[2], a[2] * b[2])
Mul(a, b) ==
    IF IsNaN(a) \/ IsNaN(b) THEN NaN ELSE Q(a[1] * b[1], a[2] * b[2])
Div(a, b) ==
    IF IsNaN(a) \/ IsNaN(b) THEN NaN ELSE Q(a[1] * b[2], a[2] * b[1])

\* str(list) of a list of names, as tokens: ['Drama', 'Comedy']
RECURSIVE ReprItems(_, _)
ReprItems(names, n) ==
    IF n = 0 THEN <<>>
    ELSE ReprItems(names, n - 1)
            \o (IF n = 1 THEN <<>> ELSE <<",">>)
            \o <<"'", names[n], "'">>
Repr(names) == <<"[">> \o ReprItems(names, Len(names)) \o <<"]">>

\* ast.literal_eval of the text of a list
LiteralEval(text) ==
    SelectSeq(text, LAMBDA t : t \notin {"[", "]", "'", ","})

(***************************************************************************)
(* Data frames: the ordered columns, the dtype of each, the rows           *)
(***************************************************************************)
Frame(cols, dtype, rows) == [cols |-> cols, dtype |-> dtype, rows |-> rows]

Range(seq) == { seq[i] : i \in DOMAIN seq }

\* df[name] = values, one value per row: a new column is appended, an old
\* one overwritten
SetColumn(df, name, dt, values) ==
    Frame(IF name \in Range(df.cols) THEN df.cols ELSE Append(df.cols, name),
          [c \in Range(df.cols) \cup {name} |->
              IF c = name THEN dt ELSE df.dtype[c]],
          [i \in DOMAIN df.rows |->
              [c \in Range(df.cols) \cup {name} |->
                  IF c = name THEN values[i] ELSE df.rows[i][c]]])

\* df.drop(columns=[col for col in names if col in df.columns])
DropColumns(df, names) ==
    LET keep == SelectSeq(df.cols, LAMBDA c : c \notin names)
    IN Frame(keep,
             [c \in Range(keep) |-> df.dtype[c]],
             [i \in DOMAIN df.rows |-> [c \in Range(keep) |-> df.rows[i][c]]])

\* the values of a column, row by row
Column(df, name) == [i \in DOMAIN df.rows |-> df.rows[i][name]]

HasNaN(df, name) == \E i \in DOMAIN df.rows : IsNaN(df.rows[i][name])

RECURSIVE DropDuplicatesMut(_, _)
\* a deduplication that compares a row with its predecessor only
DropDuplicatesMut(rows, n) ==
    IF n = 0 THEN <<>>
    ELSE IF n > 1 /\ rows[n - 1] = rows[n]
      THEN DropDuplicatesMut(rows, n - 1)
      ELSE Append(DropDuplicatesMut(rows, n - 1), rows[n])

RECURSIVE DropDuplicates(_, _)
\* df.drop_duplicates() over the first n rows: a row equal in every column
\* to an earlier one is removed, the first occurrence kept
DropDuplicates(rows, n) ==
    IF n = 0 THEN <<>>
    ELSE IF \E j \in 1..(n - 1) : rows[j] = rows[n]
      THEN DropDuplicates(rows, n - 1)
      ELSE Append(DropDuplicates(rows, n - 1), rows[n])

(***************************************************************************)
(* load_and_process_data                                                   *)
(***************************************************************************)
\* pd.to_datetime(text, errors='coerce'): a year-month-day text parses, any
\* other text and a missing cell become NaT
ToDatetime(text) == IF Len(text) = 3 THEN text ELSE NaN

\* .dt.year, .dt.month, .dt.day of a timestamp or NaT
DatePart(ts, k) == IF IsNaN(ts) THEN NaN ELSE Q(ts[k], 1)

\* str(id)
AsStr(x) == <<"str", x[1]>>

\* series.replace(0, np.nan)
Replace0Mut(x) == x
Replace0(x) == IF x = Q(0, 1) THEN NaN ELSE x

\* (df['revenue'] - df['budget']) / df['budget']
Roi(revenue, budget) == Div(Sub(revenue, budget), budget)

\* np.log1p(x.clip(lower=0)); log1p(0) is 0, any other value stays symbolic
Log1pClip(x) ==
    IF IsNaN(x) THEN NaN
    ELSE IF x[1] <= 0 THEN Q(0, 1)
    ELSE <<x[1], x[2], "log1p">>

\* f"{col}_log"
LogName(col) == col \o "_log"

RECURSIVE SumSeq(_, _)
SumSeq(xs, n) == IF n = 0 THEN 0 ELSE SumSeq(xs, n - 1) + xs[n]

RECURSIVE ProdSeq(_, _)
ProdSeq(xs, n) == IF n = 0 THEN 1 ELSE ProdSeq(xs, n - 1) * xs[n]

\* abs(series.skew(skipna=True)) > 1 for the sample skewness
\*   G1 = sqrt(n (n - 1)) / (n - 2) * m3 / m2 ^ 1.5
\* of the values that are not NaN; it is NaN below three values and 0 for a
\* constant column.  With e[i] = n * x[i] - sum(x), S2 = sum(e ^ 2) and
\* S3 = sum(e ^ 3), G1 ^ 2 > 1 is n^2 (n - 1) S3^2 > (n - 2)^2 S2^3; the
\* values are first brought to a common denominator, which G1 ignores.
SkewAbove1(values) ==
    LET xs == SelectSeq(values, LAMBDA v : ~IsNaN(v))
        n == Len(xs)
        den == ProdSeq([i \in 1..n |-> xs[i][2]], n)
        ints == [i \in 1..n |-> xs[i][1] * (den \div xs[i][2])]
        total == SumSeq(ints, n)
        e == [i \in 1..n |-> n * ints[i] - total]
        S2 == SumSeq([i \in 1..n |-> e[i] * e[i]], n)
        S3 == SumSeq([i \in 1..n |-> e[i] * e[i] * e[i]], n)
    IN /\ n >= 3
       /\ \A i \in 1..n : IsFinite(xs[i])
       /\ S2 # 0
       /\ n * n * (n - 1) * S3 * S3 > (n - 2) * (n - 2) * S2 * S2 * S2

\* df.select_dtypes(include=[np.number]).columns
NumericVars(df) ==
    SelectSeq(df.cols, LAMBDA c : df.dtype[c] \in {"int", "int32", "float"})

\* [col for col in numeric_vars if col not in ['id', 'popularity']
\*      and abs(df[col].skew(skipna=True)) > 1]
SkewedCols(df) ==
    SelectSeq(NumericVars(df),
              LAMBDA c : /\ c \notin {"id", "popularity"}
                         /\ SkewAbove1(Column(df, c)))

RECURSIVE AddLogColumns(_, _, _)
\* for col in skewed_cols: df[f"{col}_log"] = np.log1p(df[col].clip(lower=0))
AddLogColumns(df, cols, n) ==
    IF n = 0 THEN df
    ELSE SetColumn(AddLogColumns(df, cols, n - 1), LogName(cols[n]), "float",
                   [i \in DOMAIN df.rows |-> Log1pClip(df.rows[i][cols[n]])])

\* the fixed tuple of display names
lang_representation ==
    <<"English", "Japanese", "French", "Chinese(Simplified)", "German",
      "Spanish", "Chinese(Traditional)", "Serbo-Croatian", "Arabic",
      "Italian", "Russian", "Korean", "Persian", "Hindi", "Polish", "Telugu",
      "Tamil", "Finnish", "Greek", "Swedish", "Dutch", "Czech", "Malayalam",
      "Tagalog", "Kannada", "Slovak", "Vietnamese", "Danish", "Hungarian",
      "Macedonian", "Serbian", "Thai", "Norwegian", "Turkish", "Portuguese",
      "Urdu", "Hebrew", "Bengali", "Tibetan", "Bosnian", "Unknown", "Tswana",
      "Kurdish", "Romanian", "Ukrainian", "Punjabi", "Lithuanian",
      "Icelandic", "Indonesian", "Afrikaans", "Estonian", "Marathi", "Khmer",
      "Galician", "Sinhala", "Basque", "Azerbaijani", "Albanian", "Dzongkha",
      "Mongolian", "Irish", "Hiri Motu", "Ido", "Catalan", "Kikuyu",
      "Latvian", "Malay", "Odia", "Georgian">>

RECURSIVE Unique(_, _)
\* series.unique(): the distinct values in the order first seen
Unique(values, n) ==
    IF n = 0 THEN <<>>
    ELSE LET before == Unique(values, n - 1)
         IN IF values[n] \in Range(before) THEN before
            ELSE Append(before, values[n])

\* df['original_language'].map(dict(zip(lang, lang_representation)))
\*      .fillna(df['original_language'])
LanguageName(code, lang) ==
    LET at == CHOOSE k \in DOMAIN lang : lang[k] = code
    IN IF at <= Len(lang_representation)
         THEN <<lang_representation[at]>> ELSE code

\* drop_cols of load_and_process_data
CleanerDropCols ==
    {"original_title", "overview", "adult", "spoken_languages",
     "original_language"}

\* the dtype of .dt.year, .dt.month and .dt.day of a column with no NaT:
\* int64 in pandas 1, int32 in pandas 2; no version is pinned
DatePartDtypes == {"int", "int32"}

\* lines 27-38: deduplication, dates, id as text, zero budget and revenue
\* as missing, roi
CleanRows(raw, part) ==
    LET d1 == Frame(raw.cols, raw.dtype,
                    DropDuplicates(raw.rows, Len(raw.rows)))
        d2 == SetColumn(d1, "release_date", "datetime",
                        [i \in DOMAIN d1.rows |->
                            ToDatetime(d1.rows[i]["release_date"])])
        partType == IF HasNaN(d2, "release_date") THEN "float" ELSE part
        d3 == SetColumn(d2, "release_year", partType,
                        [i \in DOMAIN d2.rows |->
                            DatePart(d2.rows[i]["release_date"], 1)])
        d4 == SetColumn(d3, "release_month", partType,
                        [i \in DOMAIN d3.rows |->
                            DatePart(d3.rows[i]["release_date"], 2)])
        d5 == SetColumn(d4, "release_day", partType,
                        [i \in DOMAIN d4.rows |->
                            DatePart(d4.rows[i]["release_date"], 3)])
        d6 == SetColumn(d5, "id", "object",
                        [i \in DOMAIN d5.rows |->
                            AsStr(d5.rows[i]["id"])])
        d7 == SetColumn(d6, "budget", "float",
                        [i \in DOMAIN d6.rows |->
                            Replace0(d6.rows[i]["budget"])])
        d8 == SetColumn(d7, "revenue", "float",
                        [i \in DOMAIN d7.rows |->
                            Replace0(d7.rows[i]["revenue"])])
    IN SetColumn(d8, "roi", "float",
                 [i \in DOMAIN d8.rows |->
                     Roi(d8.rows[i]["revenue"], d8.rows[i]["budget"])])

\* lines 40-62: the log companions of the skewed columns, the language
\* names, the dropped columns
Transform(df) ==
    LET logged == AddLogColumns(df, SkewedCols(df), Len(SkewedCols(df)))
        lang == Unique(Column(df, "original_language"), Len(df.rows))
        named == SetColumn(logged, "language_name", "object",
                    [i \in DOMAIN logged.rows |->
                        LanguageName(logged.rows[i]["original_language"],
                                     lang)])
    IN DropColumns(named, CleanerDropCols)

\* the frame load_and_process_data returns
Cleaned(raw, part) == Transform(CleanRows(raw, part))

\* df.to_csv(clean_file, index=False): the header and the rows as text; the
\* id is written as its digits, a timestamp as its date, NaN as an empty
\* field
ToCsv(df) ==
    [cols |-> df.cols,
     rows |-> [i \in DOMAIN df.rows |->
                 [c \in Range(df.cols) |->
                     IF c = "id" THEN Q(df.rows[i][c][2], 1)
                     ELSE df.rows[i][c]]]]

(***************************************************************************)
(* The raw dataset files that are modelled                                 *)
(***************************************************************************)
\* the columns of the raw file, in the order of the fetched records
RawCols ==
    <<"id", "title", "original_title", "overview", "release_date",
      "original_language", "popularity", "vote_average", "vote_count",
      "adult", "genres", "runtime", "budget", "revenue",
      "production_countries", "spoken_languages">>

\* one row of the raw file
RawRow(id, date, budget, revenue, genres, overview, lang, popularity) ==
    [c \in Range(RawCols) |->
        CASE c = "id" -> Q(id, 1)
          [] c = "title" -> <<"t">>
          [] c = "original_title" -> <<"t">>
          [] c = "overview" -> overview
          [] c = "release_date" -> date
          [] c = "original_language" -> lang
          [] c = "popularity" -> popularity
          [] c = "vote_average" -> Q(7, 1)
          [] c = "vote_count" -> Q(10, 1)
          [] c = "adult" -> <<"False">>
          [] c = "genres" -> Repr(genres)
          [] c = "runtime" -> Q(90, 1)
          [] c = "budget" -> budget
          [] c = "revenue" -> revenue
          [] c = "production_countries" -> Repr(genres)
          [] OTHER -> Repr(<<"English">>)]

\* the dtype pd.read_csv infers for a column of the raw file
RawDtype(c, rows) ==
    IF c \in {"popularity", "vote_average"} THEN "float"
    ELSE IF c \in {"id", "vote_count", "runtime", "budget", "revenue"}
      THEN (IF \E i \in DOMAIN rows : IsNaN(rows[i][c])
              THEN "float" ELSE "int")
    ELSE IF c = "adult" THEN "bool"
    ELSE "object"

\* pd.read_csv(raw_file)
ReadRaw(rows) ==
    Frame(RawCols, [c \in Range(RawCols) |-> RawDtype(c, rows)], rows)

\* the k-th choice of budget and revenue (k in 1..9), ids all distinct
BudgetValues == <<NaN, Q(0, 1), Q(2, 1)>>
RevenueValues == <<Q(0, 1), Q(2, 1), Q(8, 1)>>
MoneyRow(i, k) ==
    RawRow(i, <<FirstYear, 1, 1>>, BudgetValues[((k - 1) \div 3) + 1],
           RevenueValues[((k - 1) % 3) + 1], <<"Drama">>, <<"a">>, <<"en">>,
           Q(5, 1))

\* the k-th choice of movie, genre list and overview (k in 1..8): two rows
\* of one movie may differ in a list and in a text column
GenreValues == <<(<<>>), <<"Drama">>>>
OverviewValues == <<(<<"a">>), <<"b">>>>
MovieRow(i, k) ==
    RawRow(((k - 1) \div 4) + 1, <<FirstYear, 1, 1>>, Q(0, 1), NaN,
           GenreValues[(((k - 1) \div 2) % 2) + 1],
           OverviewValues[((k - 1) % 2) + 1],
           IF k <= 4 THEN <<"en">> ELSE <<"ja">>, Q(5, 1))

\* the k-th choice of release date and revenue (k in 1..15), ids all
\* distinct: an unparseable date or one of four years; no revenue, 2 or 8
DateValues ==
    <<(<<"bad">>), <<FirstYear, 6, 15>>, <<FirstYear + 1, 6, 15>>,
      <<FirstYear + 2, 6, 15>>, <<FirstYear + 3, 6, 15>>>>
YearRevenueValues == <<NaN, Q(2, 1), Q(8, 1)>>
YearRow(i, k) ==
    RawRow(i, DateValues[((k - 1) \div 3) + 1], Q(2, 1),
           YearRevenueValues[((k - 1) % 3) + 1], <<"Drama">>, <<"a">>,
           <<"en">>, Q(5, 1))

\* the choices of n rows; where the ids are all distinct the order of the
\* rows is of no matter and only the sorted choices are taken
Choices(n, kinds) == [1..n -> 1..kinds]
Sorted(f) == \A i \in DOMAIN f : i = 1 \/ f[i - 1] <= f[i]

\* the raw files: up to MaxRows rows of one of the three kinds
RawFiles ==
    UNION {   { [i \in 1..n |-> MoneyRow(i, f[i])] :
                    f \in { g \in Choices(n, 9) : Sorted(g) } }
         \cup { [i \in 1..n |-> MovieRow(i, f[i])] : f \in Choices(n, 8) }
         \cup { [i \in 1..n |-> YearRow(i, f[i])] :
                    f \in { g \in Choices(n, 15) : Sorted(g) } }
         : n \in 1..MaxRows }

(***************************************************************************)
(* The data scripts                                                        *)
(***************************************************************************)
\* train_rf_model.py line 25: df, skewed_cols = load_and_process_data(),
\* which also writes the cleaned file
LoadAndProcess ==
    /\ pc_data = "raw"
    /\ \E part \in DatePartDtypes :
          /\ cleaned' = Cleaned(raw_file, part)
          /\ skewed_cols' = SkewedCols(CleanRows(raw_file, part))
    /\ clean_file' = ToCsv(cleaned')
    /\ pc_data' = "cleaned"
    /\ UNCHANGED <<raw_file, train_df, feature_cols, pc_dash, dash_df,
                   yearly_data>>
    /\ UNCHANGED fetch_vars

(***************************************************************************)
(* train_rf_model.py: the preparation of the features                      *)
(***************************************************************************)
\* drop_cols = ['id', 'title', 'release_date', 'spoken_languages']
\*                 + skewed_cols
TrainerDropColsMut(skewed) ==
    {"id", "title", "release_date", "spoken_languages"}
TrainerDropCols(skewed) ==
    {"id", "title", "release_date", "spoken_languages"} \cup Range(skewed)

\* df.dropna(), run when some column holds a NaN: the rows with no NaN
DropNa(df) ==
    Frame(df.cols, df.dtype,
          SelectSeq(df.rows,
                    LAMBDA row : \A c \in Range(df.cols) : ~IsNaN(row[c])))

\* [col for col in df.columns
\*      if col != 'popularity' and df[col].dtype in [int, float, bool]]
FeatureCols(df) ==
    SelectSeq(df.cols,
              LAMBDA c : /\ c # "popularity"
                         /\ df.dtype[c] \in {"int", "float", "bool"})

\* lines 29-48: drop the unwanted columns, drop the rows with NaN, choose
\* the features
PrepareFeatures ==
    /\ pc_data = "cleaned"
    /\ train_df' = DropNa(DropColumns(cleaned, TrainerDropCols(skewed_cols)))
    /\ feature_cols' = FeatureCols(train_df')
    /\ pc_data' = "prepared"
    /\ UNCHANGED <<raw_file, cleaned, skewed_cols, clean_file, pc_dash,
                   dash_df, yearly_data>>
    /\ UNCHANGED fetch_vars

(***************************************************************************)
(* dashboard.py: loading and preparing the data                            *)
(***************************************************************************)
\* the list columns the dashboard normalises
DashListCols == {"genres", "production_countries", "spoken_languages"}

\* lambda x: ['Unknown'] if isinstance(x, list) and len(x) == 0 else x
UnknownIfEmptyMut(x) == x
UnknownIfEmpty(x) == IF Len(x) = 0 THEN <<"Unknown">> ELSE x

\* the years of the rows of a frame that have one
YearsOf(rows) ==
    { rows[i]["release_year"][1] :
        i \in { k \in DOMAIN rows : ~IsNaN(rows[k]["release_year"]) } }

SetMin(S) == CHOOSE x \in S : \A y \in S : x <= y
SetMax(S) == CHOOSE x \in S : \A y \in S : x >= y

\* lines 10-17: read the cleaned file, take the first and last year (int()
\* of a NaN raises when no row has a year), evaluate the list columns that
\* are present and replace the empty lists
DashboardLoad ==
    /\ pc_dash = "off"
    /\ pc_data # "raw"
    /\ IF YearsOf(clean_file.rows) = {}
         THEN /\ pc_dash' = "failed"
              /\ dash_df' = dash_df
         ELSE /\ pc_dash' = "loaded"
              /\ dash_df' =
                    [cols |-> clean_file.cols,
                     min_year |-> SetMin(YearsOf(clean_file.rows)),
                     max_year |-> SetMax(YearsOf(clean_file.rows)),
                     rows |->
                        [i \in DOMAIN clean_file.rows |->
                            [c \in Range(clean_file.cols) |->
                                IF c \in DashListCols
                                  THEN UnknownIfEmpty(
                                          LiteralEval(clean_file.rows[i][c]))
                                  ELSE clean_file.rows[i][c]]]]
    /\ UNCHANGED <<pc_data, raw_file, cleaned, skewed_cols, clean_file,
                   train_df, feature_cols, yearly_data>>
    /\ UNCHANGED fetch_vars

RECURSIVE SumQ(_, _)
SumQ(xs, n) == IF n = 0 THEN Q(0, 1) ELSE Add(SumQ(xs, n - 1), xs[n])

\* the rows of one release year
RowsOfYear(rows, y) ==
    SelectSeq(rows, LAMBDA row : row["release_year"] = Q(y, 1))

\* groupby('release_year').size() for one year: NaN after the reindex for a
\* year with no row
GroupSize(rows, y) ==
    IF RowsOfYear(rows, y) = <<>> THEN NaN
    ELSE Q(Len(RowsOfYear(rows, y)), 1)

\* groupby('release_year')[col].mean() for one year: the mean of the values
\* that are not NaN, NaN when there is none
GroupMean(rows, col, y) ==
    LET xs == SelectSeq(Column([rows |-> RowsOfYear(rows, y)], col),
                        LAMBDA v : ~IsNaN(v))
    IN IF xs = <<>> THEN NaN ELSE Div(SumQ(xs, Len(xs)), Q(Len(xs), 1))

\* a fill of every gap with 0, with no interpolation
InterpolateMut(series, y) == series[y]

\* series.interpolate() at index y: a value stays; a gap between two values
\* is filled on the line between them; a gap after the last value takes
\* the last value; a gap before the first value stays NaN
Interpolate(series, y) ==
    LET before == { x \in DOMAIN series : x < y /\ ~IsNaN(series[x]) }
        after == { x \in DOMAIN series : x > y /\ ~IsNaN(series[x]) }
    IN IF ~IsNaN(series[y]) THEN series[y]
       ELSE IF before = {} THEN NaN
       ELSE IF after = {} THEN series[SetMax(before)]
       ELSE LET lo == SetMax(before)
                hi == SetMin(after)
            IN Add(series[lo],
                   Mul(Sub(series[hi], series[lo]), Q(y - lo, hi - lo)))

\* .fillna(0)
FillNa0(x) == IF IsNaN(x) THEN Q(0, 1) ELSE x

\* .set_index('release_year').reindex(all_years).interpolate().fillna(0)
Reindexed(series) ==
    [y \in DOMAIN series |-> FillNa0(Interpolate(series, y))]

\* the metrics of yearly_data and the column each one averages
MetricColumn ==
    [revenue |-> "revenue", rating |-> "vote_average",
     popularity |-> "popularity", runtime |-> "runtime"]

\* one metric of one year, before the reindex
Grouped(df, key, y) ==
    IF key = "releases" THEN GroupSize(df.rows, y)
    ELSE GroupMean(df.rows, MetricColumn[key], y)

\* lines 19-36: the yearly aggregates
AggregateYearly ==
    /\ pc_dash = "loaded"
    /\ yearly_data' =
          [key \in {"releases"} \cup DOMAIN MetricColumn |->
              Reindexed([y \in dash_df.min_year..dash_df.max_year |->
                            Grouped(dash_df, key, y)])]
    /\ pc_dash' = "aggregated"
    /\ UNCHANGED <<pc_data, raw_file, cleaned, skewed_cols, clean_file,
                   train_df, feature_cols, dash_df>>
    /\ UNCHANGED fetch_vars

InitData ==
    /\ pc = "off"
    /\ year = FirstYear
    /\ pages = NoPages
    /\ total_movies = <<>>
    /\ semaphore = 0
    /\ detail_tasks = <<>>
    /\ enriched = <<>>
    /\ output_csv = <<>>
    /\ page_requests = [r \in Years \X Pages |-> 0]
    /\ ok_page_items = 0
    /\ page_failed = FALSE
    /\ detail_requests = <<>>
    /\ pc_data = "raw"
    /\ \E rows \in RawFiles : raw_file = ReadRaw(rows)
    /\ cleaned = <<>>
    /\ skewed_cols = <<>>
    /\ clean_file = <<>>
    /\ train_df = <<>>
    /\ feature_cols = <<>>
    /\ pc_dash = "off"
    /\ dash_df = <<>>
    /\ yearly_data = <<>>

NextData ==
    \/ LoadAndProcess
    \/ PrepareFeatures
    \/ DashboardLoad
    \/ AggregateYearly

SpecData == InitData /\ [][NextData]_vars

(***************************************************************************)
(* Properties of the fetcher                                               *)
(***************************************************************************)
\* detail requests issued by fetch_movie_details and not yet ended
InFlight ==
    { i \in DOMAIN detail_tasks :
        detail_tasks[i].st \in {"requesting", "reading"} }

\* C1: at every moment of the enrichment pass, in every interleaving of the
\* detail tasks, the number of detail requests in flight is at most the
\* number of permits of the semaphore (30 in the source), and the permits
\* taken are exactly those of the requests in flight.
C1_InFlightBounded ==
    /\ Cardinality(InFlight) <= SemaphoreLimit
    /\ pc = "gather_details" =>
          semaphore = SemaphoreLimit - Cardinality(InFlight)

\* the limit is reached while another task still waits for a permit
C1_Witness ==
    /\ pc = "gather_details"
    /\ Cardinality(InFlight) = SemaphoreLimit
    /\ \E i \in DOMAIN detail_tasks : detail_tasks[i].st = "created"

\* the record a detail request at position i yields when its body is read
\* and carries an id: every key of the record is present and the id is the
\* one that was asked for
IsCompleteRecordOf(rec, i) ==
    /\ DOMAIN rec = RecordKeys
    /\ rec["id"] = <<detail_tasks[i].movie_id>>

\* the run was not aborted, and a failed page contributed no item: the
\* accumulated list and the results of the pending gather together hold
\* exactly the items that successful pages carried
FailuresAreNotFatal ==
    /\ pc # "aborted"
    /\ \A p \in Pages :
          (pages[p].st = "done" /\ ~pages[p].ok) => pages[p].ret = <<>>
    /\ Len(total_movies)
          + SumLen([p \in Pages |-> pages[p].ret], PagesPerYear)
          = ok_page_items

C3_DiscoveryStopsAtCeiling ==
    /\ year \in Years
    /\ \A y \in Years, p \in Pages :
          page_requests[<<y, p>>] =
              IF y < year \/ (y = year /\ pc # "discover") THEN 1 ELSE 0
    /\ pc \in {"discover", "gather_pages"} => Len(total_movies) < Ceiling
    /\ pc \notin {"discover", "gather_pages", "aborted"} =>
          Len(total_movies) >= Ceiling \/ year = LastYear

\* the pass stopped before the last year because the ceiling was reached
C3_Witness ==
    /\ pc = "enrich"
    /\ year < LastYear
    /\ Len(total_movies) >= Ceiling
    /\ \A p \in Pages : page_requests[<<year + 1, p>>] = 0

\* C4: detail tasks exist only for the first Ceiling positions of the
\* discovered list, each asks for the id at its position and issues at most
\* one request (exactly one once the pass is over), so the enriched output
\* holds at most min(Ceiling, number of discovered items) records.
C4_EnrichmentCapped ==
    pc \in {"gather_details", "save", "done"} =>
        /\ Len(detail_tasks) = Min(Ceiling, Len(total_movies))
        /\ \A i \in DOMAIN detail_requests :
              IF i \in DOMAIN detail_tasks /\ i <= Ceiling
                   /\ detail_tasks[i].st # "created"
                THEN detail_requests[i] = <<total_movies[i].id>>
                ELSE detail_requests[i] = <<>>
        /\ pc \in {"save", "done"} =>
              /\ \A i \in DOMAIN detail_tasks : detail_tasks[i].st = "done"
              /\ Len(enriched) <= Min(Ceiling, Len(total_movies))
        /\ pc = "done" => Len(output_csv) <= Min(Ceiling, Len(total_movies))

\* the discovery pass accumulated more items than the ceiling and the
\* enrichment of the first Ceiling of them is saved
C4_Witness ==
    /\ pc = "done"
    /\ Len(total_movies) > Ceiling
    /\ Len(output_csv) = Ceiling
\* the save step is reached with every detail task admitted under the
\* semaphore and ended, and with every permit free
SavedWithAllPermitsFree ==
    /\ pc = "done"
    /\ semaphore = SemaphoreLimit
    /\ \A i \in DOMAIN detail_tasks :
          /\ detail_tasks[i].st = "done"
          /\ detail_tasks[i].status \in ResponseKinds

\* C11: every exit of fetch_movie_details (status 200, another status, an
\* exception) gives the permit back: if every issued request answers or
\* fails in the end, then from the moment the detail tasks are queued the
\* run reaches the save step with every task admitted and ended, and from
\* the end of the gather on all the permits are free.
C11_PermitsReleasedAndSaveReached ==
    /\ (pc = "gather_details") ~> SavedWithAllPermitsFree
    /\ [](pc \in {"save", "done"} =>
            (semaphore = SemaphoreLimit /\ InFlight = {}))

\* the run is saved with all permits free after two detail tasks shared
\* the semaphore, one ended by an exception and one by a status that is
\* not 200, so that neither exit kept its permit
C11_Witness ==
    /\ SavedWithAllPermitsFree
    /\ Len(detail_tasks) > SemaphoreLimit
    /\ \E i, j \in DOMAIN detail_tasks :
          /\ detail_tasks[i].status = "exception"
          /\ detail_tasks[j].status = "non200"

(***************************************************************************)
(* Properties of the cleaner                                               *)
(***************************************************************************)
\* the raw rows that survive the deduplication, in order: row i of the
\* cleaned frame comes from row i of these
Kept == DropDuplicates(raw_file.rows, Len(raw_file.rows))

\* C5: after load_and_process_data, in every row, roi is missing whenever
\* the raw budget is 0 or missing, and it is never an infinity; when budget
\* and revenue are both present and not 0, roi is a number with
\* roi * budget = revenue - budget.
C5_RoiMissingOnZeroBudget ==
    pc_data # "raw" =>
        /\ Len(cleaned.rows) = Len(Kept)
        /\ \A i \in DOMAIN cleaned.rows :
              LET budget == Kept[i]["budget"]
                  revenue == Kept[i]["revenue"]
                  roi == cleaned.rows[i]["roi"]
              IN /\ cleaned.rows[i]["id"] = AsStr(Kept[i]["id"])
                 /\ clean_file.rows[i]["roi"] = roi
                 /\ IsNaN(roi) \/ IsFinite(roi)
                 /\ budget \in {NaN, Q(0, 1)} => IsNaN(roi)
                 /\ (budget \notin {NaN, Q(0, 1)}
                        /\ revenue \notin {NaN, Q(0, 1)}) =>
                       /\ IsFinite(roi)
                       /\ Mul(roi, budget) = Sub(revenue, budget)

\* a cleaned file with a row of budget 0 and revenue 8, whose roi is
\* missing, and a row of budget 2 and revenue 8, whose roi is 3
C5_Witness ==
    /\ pc_data = "cleaned"
    /\ \E i, j \in DOMAIN cleaned.rows :
          /\ Kept[i]["budget"] = Q(0, 1)
          /\ Kept[i]["revenue"] = Q(8, 1)
          /\ IsNaN(cleaned.rows[i]["roi"])
          /\ Kept[j]["budget"] = Q(2, 1)
          /\ Kept[j]["revenue"] = Q(8, 1)
          /\ cleaned.rows[j]["roi"] = Q(3, 1)

\* C7: after the cleaner's deduplication no two rows of the cleaned dataset
\* share an id.
C7_IdUniqueAfterCleaning ==
    pc_data # "raw" =>
        \A i, j \in DOMAIN cleaned.rows :
            i # j => cleaned.rows[i]["id"] # cleaned.rows[j]["id"]

RawList(i, c) == LiteralEval(Kept[i][c])

YearlyKeys == {"releases", "revenue", "rating", "popularity", "runtime"}

\* the years before and after y in which a metric has a value
EarlierYears(key, y) ==
    { x \in dash_df.min_year..(y - 1) : ~IsNaN(Grouped(dash_df, key, x)) }
LaterYears(key, y) ==
    { x \in (y + 1)..dash_df.max_year : ~IsNaN(Grouped(dash_df, key, x)) }

\* v lies at year y on the line through the values of the years lo and hi
OnLine(key, v, lo, hi, y) ==
    LET a == Grouped(dash_df, key, lo)
        b == Grouped(dash_df, key, hi)
    IN Mul(Sub(v, a), Q(hi - lo, 1)) = Mul(Sub(b, a), Q(y - lo, 1))

\* what C9 and its amended form share: one row for every year from the
\* first to the last, a year with a value keeps it, and a year with no
\* value between years with values lies on the line between its neighbours
YearlyInterior ==
    \A key \in YearlyKeys :
        /\ DOMAIN yearly_data[key] = dash_df.min_year..dash_df.max_year
        /\ \A y \in dash_df.min_year..dash_df.max_year :
              LET v == yearly_data[key][y]
                  g == Grouped(dash_df, key, y)
                  E == EarlierYears(key, y)
                  L == LaterYears(key, y)
              IN /\ ~IsNaN(g) => v = g
                 /\ (IsNaN(g) /\ E # {} /\ L # {}) =>
                       OnLine(key, v, SetMax(E), SetMin(L), y)

\* C9 as stated: in yearly_data a gap between years with values is
\* interpolated, and a gap with no year with a value on one side, leading
\* or trailing, is 0.
C9_ZeroAtBothEdges ==
    pc_dash = "aggregated" =>
        /\ YearlyInterior
        /\ \A key \in YearlyKeys :
              \A y \in dash_df.min_year..dash_df.max_year :
                  (/\ IsNaN(Grouped(dash_df, key, y))
                   /\ \/ EarlierYears(key, y) = {}
                      \/ LaterYears(key, y) = {}) =>
                      yearly_data[key][y] = Q(0, 1)

\* C9: in yearly_data a gap between years with values is interpolated, a
\* gap after the last year with a value takes the value of that year, and
\* only a gap before the first year with a value (or in a metric with no
\* value at all) is 0.
C9_ZeroOnlyAtLeadingEdge ==
    pc_dash = "aggregated" =>
        /\ YearlyInterior
        /\ \A key \in YearlyKeys :
              \A y \in dash_df.min_year..dash_df.max_year :
                  LET v == yearly_data[key][y]
                      E == EarlierYears(key, y)
                  IN IsNaN(Grouped(dash_df, key, y)) =>
                        /\ E = {} => v = Q(0, 1)
                        /\ (E # {} /\ LaterYears(key, y) = {}) =>
                              v = Grouped(dash_df, key, SetMax(E))

\* yearly aggregates whose mean revenue is 2 in the first year, has no
\* value in the second and is 5 there after the interpolation, is 8 in the
\* third, and has no value in the last year, where it is 8 and not 0
C9_Witness ==
    /\ pc_dash = "aggregated"
    /\ dash_df.max_year = dash_df.min_year + 3
    /\ LET g == [y \in dash_df.min_year..dash_df.max_year |->
                    Grouped(dash_df, "revenue", y)]
           v == yearly_data["revenue"]
       IN /\ g[dash_df.min_year] = Q(2, 1)
          /\ IsNaN(g[dash_df.min_year + 1])
          /\ g[dash_df.min_year + 2] = Q(8, 1)
          /\ IsNaN(g[dash_df.max_year])
          /\ v[dash_df.min_year + 1] = Q(5, 1)
          /\ v[dash_df.max_year] = Q(8, 1)

(***************************************************************************)
(* Properties of the trainer's features                                    *)
(***************************************************************************)
\* the columns of the cleaned frame that the trainer does not drop
Remaining ==
    SelectSeq(cleaned.cols,
              LAMBDA c : c \notin {"id", "title", "release_date",
                                   "spoken_languages"} \cup Range(skewed_cols))

\* the rows of the cleaned frame with no missing value in a set of columns
RowsWithout(cols) ==
    { i \in DOMAIN cleaned.rows : \A c \in cols : ~IsNaN(cleaned.rows[i][c]) }

\* what C10 and its amended form share: the features are columns that
\* remain, never popularity, never a column of text; no skewed column is a
\* feature; no row of the training frame has a missing value in a feature
FeaturesBase ==
    /\ \A c \in Range(feature_cols) :
          /\ c \in Range(Remaining)
          /\ c # "popularity"
          /\ cleaned.dtype[c] \in {"int", "float", "bool"}
    /\ \A c \in Range(skewed_cols) : c \notin Range(feature_cols)
    /\ \A i \in DOMAIN train_df.rows :
          \A c \in Range(feature_cols) : ~IsNaN(train_df.rows[i][c])

\* C10 as stated: neither a skewed column nor its _log companion is a
\* feature, and the rows with a missing value in a feature are removed.
C10_SkewedAndLogExcluded ==
    pc_data = "prepared" =>
        /\ FeaturesBase
        /\ \A c \in Range(skewed_cols) :
              LogName(c) \notin Range(feature_cols)

\* C10: the trainer drops the skewed columns themselves and keeps their
\* _log companions, which are features; every remaining column of floats
\* other than popularity is a feature; the rows that are kept are those
\* with no missing value in any remaining column, feature or not.
C10_LogCompanionsAreFeatures ==
    pc_data = "prepared" =>
        /\ FeaturesBase
        /\ train_df.cols = Remaining
        /\ \A c \in Range(skewed_cols) : LogName(c) \in Range(feature_cols)
        /\ \A c \in Range(Remaining) :
              (c # "popularity" /\ cleaned.dtype[c] = "float") =>
                  c \in Range(feature_cols)
        /\ Len(train_df.rows) = Cardinality(RowsWithout(Range(Remaining)))
        /\ \A i \in DOMAIN train_df.rows :
              \E k \in RowsWithout(Range(Remaining)) :
                  \A c \in Range(Remaining) :
                      train_df.rows[i][c] = cleaned.rows[k][c]

\* a prepared training frame where revenue is skewed: revenue is not a
\* feature, revenue_log is, and one of the three cleaned rows, which has no
\* budget, is removed
C10_Witness ==
    /\ pc_data = "prepared"
    /\ skewed_cols = <<"revenue">>
    /\ "revenue" \notin Range(feature_cols)
    /\ "revenue_log" \in Range(feature_cols)
    /\ Len(cleaned.rows) = 3
    /\ Len(train_df.rows) = 2
    /\ \E i \in DOMAIN cleaned.rows : IsNaN(cleaned.rows[i]["budget"])

=============================================================================
